---- MODULE Spec2Model ----
(***************************************************************************)
(* A model of joystick.py: the calibration-file search (find_file), the    *)
(* Joystick object's construction and interactive calibration, the         *)
(* persistence of the calibration record on line 2 of the file, and the    *)
(* query surface (converter, up/down/right/left, max_direction, get,       *)
(* get_all_states, get_waiter).                                            *)
(*                                                                         *)
(* Text is modelled as a sequence of tokens (strings); a file is a         *)
(* sequence of lines, each line a token sequence ending in "\n".  Values   *)
(* returned by functions are records [k |-> kind, v |-> payload] so that   *)
(* None, strings, numbers, lists and raised exceptions can be told apart.  *)
(* The ADC range 0..65535 is scaled down to 0..AdcMax.                     *)
(***************************************************************************)
EXTENDS Integers, Sequences, FiniteSets, TLC

\* ------------------------------------------------------------------ bounds
AdcMax == 6          \* full scale of read_u16() in the model (65535 on the device)
MaxEntries == 2      \* longest directory listing in the search trees
MaxPolls == 2        \* polls one get_waiter call may make in the model
MaxCalibrate == 1    \* explicit calibrate() calls after construction

\* ----------------------------------------------------------- small helpers
Abs(x) == IF x < 0 THEN -x ELSE x

\* Python's round(n / d) for d > 0: nearest integer, halves to the even one.
round(n, d) ==
    LET q == n \div d
        r == n % d
    IN  IF 2 * r < d THEN q
        ELSE IF 2 * r > d THEN q + 1
        ELSE IF q % 2 = 0 THEN q ELSE q + 1

\* Returned values.
None == [k |-> "None", v |-> <<>>]

StrV(s) == [k |-> "str", v |-> s]

IntV(n) == [k |-> "int", v |-> n]

BoolV(b) == [k |-> "bool", v |-> b]

ListV(l) == [k |-> "list", v |-> l]

PathV(p) == [k |-> "path", v |-> p]

Raise(e) == [k |-> "raise", v |-> e]

\* Python truthiness of a returned value (`if x:` / `while not x:`).
truthy(x) ==
    CASE x.k = "None" -> FALSE
      [] x.k = "bool" -> x.v
      [] x.k = "int" -> x.v # 0
      [] x.k = "str" -> x.v # ""
      [] OTHER -> x.v # <<>>

\* ------------------------------------------------------------------- text
DigitChar == <<"0", "1", "2", "3", "4", "5", "6", "7", "8", "9">>

IsDigit(t) == \E d \in 1..10 : DigitChar[d] = t

DigitVal(t) == (CHOOSE d \in 1..10 : DigitChar[d] = t) - 1

\* str(n) of a non-negative int: its decimal digits.
RECURSIVE repr_int(_)
repr_int(n) ==
    IF n < 10 THEN <<DigitChar[n + 1]>>
    ELSE repr_int(n \div 10) \o <<DigitChar[(n % 10) + 1]>>

\* str.strip(): leading and trailing whitespace tokens removed.
IsSpace(t) == t \in {" ", "\n"}

RECURSIVE lstrip(_)
lstrip(s) == IF s # <<>> /\ IsSpace(Head(s)) THEN lstrip(Tail(s)) ELSE s

RECURSIVE rstrip(_)
rstrip(s) ==
    IF s # <<>> /\ IsSpace(s[Len(s)]) THEN rstrip(SubSeq(s, 1, Len(s) - 1)) ELSE s

strip(s) == rstrip(lstrip(s))

\* str.endswith(suffix)
endswith(s, suffix) ==
    /\ Len(suffix) <= Len(s)
    /\ SubSeq(s, Len(s) - Len(suffix) + 1, Len(s)) = suffix

\* ------------------------------------------------------------ file system
\* A node is [name, dir, lines, kids]; a directory listing is a sequence of
\* nodes in os.listdir order; a path is the sequence of names from the root.
File(name, lines) == [name |-> name, dir |-> FALSE, lines |-> lines, kids |-> <<>>]

Dir(name, kids) == [name |-> name, dir |-> TRUE, lines |-> <<>>, kids |-> kids]

RECURSIVE node_at(_, _)
node_at(listing, path) ==
    LET i == CHOOSE i \in 1..Len(listing) : listing[i].name = path[1]
    IN  IF Len(path) = 1 THEN listing[i] ELSE node_at(listing[i].kids, Tail(path))

\* os.listdir(path): the entries' names, in listing order.
listdir(tree, path) ==
    LET listing == IF path = <<>> THEN tree ELSE node_at(tree, path).kids
    IN  [i \in 1..Len(listing) |-> listing[i].name]

\* os.stat(path)[0] & 0x4000
isdir(tree, path) == node_at(tree, path).dir

\* file.readlines()
readlines(tree, path) == node_at(tree, path).lines

\* file.readline() for the n-th call on a freshly opened file ("" at the end).
readline(tree, path, n) ==
    LET lines == readlines(tree, path)
    IN  IF n <= Len(lines) THEN lines[n] ELSE <<>>

\* The tree with the file at `path` holding `lines`.
RECURSIVE write_lines(_, _, _)
write_lines(listing, path, lines) ==
    [i \in 1..Len(listing) |->
        IF listing[i].name # path[1] THEN listing[i]
        ELSE IF Len(path) = 1 THEN [listing[i] EXCEPT !.lines = lines]
        ELSE [listing[i] EXCEPT !.kids = write_lines(listing[i].kids, Tail(path), lines)]]

\* --------------------------------------------------------------- find_file
SentinelText == <<"# Calibration (will be automatically written)">>

DefaultFileType == <<".", "p", "y">>

\* find_file(path, first_line, file_type): the for loop from entry i on.  The
\* recursive call passes the new path only, so first_line and file_type take
\* their defaults below the starting directory.
RECURSIVE find_file_from(_, _, _, _, _)
find_file_from(tree, path, first_line, file_type, i) ==
    LET entries == listdir(tree, path)
    IN  IF i > Len(entries) THEN None
        ELSE
          LET entry == entries[i]
              newpath == Append(path, entry)
              rest == find_file_from(tree, path, first_line, file_type, i + 1)
          IN  IF endswith(entry, file_type) /\ isdir(tree, newpath)
              THEN Raise("OSError")
              ELSE IF /\ endswith(entry, file_type)
                      /\ strip(readline(tree, newpath, 1)) = first_line
              THEN PathV(newpath)
              ELSE IF isdir(tree, newpath)
              THEN LET return_val ==
                         find_file_from(tree, newpath, SentinelText, DefaultFileType, 1)
                   IN  IF return_val.k = "raise" THEN return_val
                       ELSE IF truthy(return_val) THEN return_val
                       ELSE rest
              ELSE rest

find_file(tree, path, first_line, file_type) ==
    find_file_from(tree, path, first_line, file_type, 1)

\* ------------------------------------------------------- str(list) and eval
\* str(entry) of one calibration entry: the pose name quoted, then the ints.
RECURSIVE repr_ints(_, _)
repr_ints(entry, i) ==
    IF i > Len(entry) THEN <<>>
    ELSE <<",", " ">> \o repr_int(entry[i]) \o repr_ints(entry, i + 1)

repr_entry(entry) ==
    <<"[", "'", entry[1], "'">> \o repr_ints(entry, 2) \o <<"]">>

RECURSIVE repr_entries(_, _)
repr_entries(data, i) ==
    IF i > Len(data) THEN <<>>
    ELSE (IF i = 1 THEN <<>> ELSE <<",", " ">>)
         \o repr_entry(data[i]) \o repr_entries(data, i + 1)

\* f'{self.cal_data}': the list literal of the calibration record.
repr(data) == <<"[">> \o repr_entries(data, 1) \o <<"]">>

IsWord(t) == ~IsDigit(t) /\ t \notin {"[", "]", ",", " ", "'", "\n"}

ParseFail == [ok |-> FALSE, val |-> <<>>, next |-> 0]

RECURSIVE parse_digits(_, _, _)
parse_digits(toks, i, acc) ==
    IF i <= Len(toks) /\ IsDigit(toks[i])
    THEN parse_digits(toks, i + 1, acc * 10 + DigitVal(toks[i]))
    ELSE [ok |-> TRUE, val |-> acc, next |-> i]

\* One literal starting at token i: an int, a quoted word, or a list.
RECURSIVE parse_value(_, _)
RECURSIVE parse_items(_, _, _)
parse_value(toks, i) ==
    IF i > Len(toks) THEN ParseFail
    ELSE IF IsDigit(toks[i]) THEN parse_digits(toks, i, 0)
    ELSE IF toks[i] = "'"
    THEN IF i + 2 <= Len(toks) /\ IsWord(toks[i + 1]) /\ toks[i + 2] = "'"
         THEN [ok |-> TRUE, val |-> toks[i + 1], next |-> i + 3]
         ELSE ParseFail
    ELSE IF toks[i] = "["
    THEN IF i + 1 <= Len(toks) /\ toks[i + 1] = "]"
         THEN [ok |-> TRUE, val |-> <<>>, next |-> i + 2]
         ELSE parse_items(toks, i + 1, <<>>)
    ELSE ParseFail

parse_items(toks, i, acc) ==
    LET r == parse_value(toks, i)
    IN  IF ~r.ok THEN ParseFail
        ELSE LET acc2 == Append(acc, r.val)
                 j == r.next
             IN  IF j <= Len(toks) /\ toks[j] = "]"
                 THEN [ok |-> TRUE, val |-> acc2, next |-> j + 1]
                 ELSE IF j + 1 <= Len(toks) /\ toks[j] = ","
                 THEN parse_items(toks, IF toks[j + 1] = " " THEN j + 2 ELSE j + 1, acc2)
                 ELSE ParseFail

\* eval(raw_data) on the literals this file format uses; ok = FALSE is the
\* exception eval raises on text that is no expression.
eval(toks) ==
    LET r == parse_value(toks, 1)
    IN  IF r.ok /\ r.next = Len(toks) + 1
        THEN [ok |-> TRUE, val |-> r.val]
        ELSE [ok |-> FALSE, val |-> <<>>]

\* ------------------------------------------------------------------ state
VARIABLES
    fs,            \* the file system: the root directory's listing
    a1, a2,        \* what self.a1.read_u16() / self.a2.read_u16() return now
    btn,           \* what self.btn.value() returns now (0 = pressed, pull-up)
    pc,            \* "new" | "calibrate" | "ready" | "failed"
    caller,        \* who called the running calibrate(): "__init__" | "user"
    samples, deadzone, file, raw_data, cal_data,
    middle, leftval, leftaxis, rightval, rightaxis,
    upval, upaxis, downval, downaxis,
    op,            \* the call that produced ret, with its arguments
    ret,           \* what that call returned or raised
    printed,       \* whether calibrate()'s last save printed its failure report
    wpc,           \* get_waiter: "idle" | "sleep"
    val,           \* get_waiter's local val
    as_bool,       \* get_waiter's argument
    polls,         \* history: the result of each poll of the running get_waiter
    calibrations   \* history: how many times calibrate() has been entered

hw == <<a1, a2, btn>>

derived ==
    <<middle, leftval, leftaxis, rightval, rightaxis, upval, upaxis, downval, downaxis>>

object == <<samples, deadzone, file, raw_data, cal_data>>

waiter == <<wpc, val, as_bool, polls>>

vars == <<fs, hw, pc, caller, object, derived, op, ret, printed, waiter, calibrations>>

NoOp == [name |-> "", args |-> <<>>]

Call(name, args) == [name |-> name, args |-> args]

\* -------------------------------------------------------------- calibrate
\* Faulty variant of calibrate_directions: UP and DOWN prompted in the wrong order.
calibrate_directions_swapped == <<"MIDDLE", "LEFT", "RIGHT", "DOWN", "UP">>

\* calibrate(): directions
calibrate_directions == <<"MIDDLE", "LEFT", "RIGHT", "UP", "DOWN">>

\* One pass of calibrate()'s loop body: the entry appended for a pose.  The
\* deviations |32767.5 - aval| are compared doubled: |AdcMax - 2 * aval|.
calibrate_entry(direction, aval1, aval2) ==
    LET diff1 == Abs(AdcMax - 2 * aval1)
        diff2 == Abs(AdcMax - 2 * aval2)
        data == IF diff1 > diff2 THEN aval1 ELSE aval2
        axis == IF diff1 > diff2 THEN 1 ELSE 2
    IN  IF direction = "MIDDLE"
        THEN <<direction, 1, aval1, 2, aval2>>
        ELSE <<direction, axis, data>>

\* What can go wrong in calibrate()'s try block: nothing, the open for
\* reading, the open for writing, or the write of line `at`.
Faults(lines) ==
    [k : {"none", "read", "open"}, at : {0}] \cup [k : {"write"}, at : 1..Len(lines)]

\* calibrate()'s try block: the file's lines afterwards.  open(file, "w")
\* empties the file, then the lines are written one by one.
save_lines(lines, data, fault) ==
    IF fault.k = "read" \/ Len(lines) < 2 \/ fault.k = "open" THEN lines
    ELSE LET new == [lines EXCEPT ![2] = repr(data) \o <<"\n">>]
         IN  IF fault.k = "write" THEN SubSeq(new, 1, fault.at - 1) ELSE new

\* Whether the except branch ran and printed the report.
save_failed(lines, fault) == fault.k # "none" \/ Len(lines) < 2

\* ------------------------------------------------------------- load_calib
\* load_calib indexes data[0][2], data[0][4] and data[1..4][1..2].
indexable(data) ==
    /\ Len(data) >= 5
    /\ Len(data[1]) >= 5
    /\ \A i \in 2..5 : Len(data[i]) >= 3

\* [round(m * p_under), m, round(m * p_over)] with p = (100 -/+ deadzone) / 100
middle_range(m, dz) == <<round(m * (100 - dz), 100), m, round(m * (100 + dz), 100)>>

\* The attributes load_calib(data) assigns.
load_calib(data, dz) ==
    [middle |-> <<middle_range(data[1][3], dz), middle_range(data[1][5], dz)>>,
     leftval |-> data[2][3], leftaxis |-> data[2][2],
     rightval |-> data[3][3], rightaxis |-> data[3][2],
     upval |-> data[4][3], upaxis |-> data[4][2],
     downval |-> data[5][3], downaxis |-> data[5][2]]

\* Faulty variant of Loaded: the up and down values assigned to each other's attribute.
Loaded_swapped(c) ==
    /\ middle' = c.middle
    /\ leftval' = c.leftval /\ leftaxis' = c.leftaxis
    /\ rightval' = c.rightval /\ rightaxis' = c.rightaxis
    /\ upval' = c.downval /\ upaxis' = c.upaxis
    /\ downval' = c.upval /\ downaxis' = c.downaxis

\* The assignment of those attributes.
Loaded(c) ==
    /\ middle' = c.middle
    /\ leftval' = c.leftval /\ leftaxis' = c.leftaxis
    /\ rightval' = c.rightval /\ rightaxis' = c.rightaxis
    /\ upval' = c.upval /\ upaxis' = c.upaxis
    /\ downval' = c.downval /\ downaxis' = c.downaxis

\* ---------------------------------------------------------------- queries
\* button()
button == btn = 0

\* axis_reader(axis): the rounded mean of `samples` reads; the pin keeps its
\* level while one synchronous call runs.
axis_reader(axis) ==
    LET adc == IF axis = 1 THEN a1 ELSE a2
    IN  round(samples * adc, samples)

\* Faulty variant of percent_of: the band's centre taken for both of its bounds.
percent_of_centre(v, axis, maxval) ==
    LET mid1 == middle[axis][2]
        mid2 == middle[axis][2]
        clamp(n, d) ==
            IF d < 0 THEN (IF n >= 0 THEN 0 ELSE IF -n >= -d THEN 100 ELSE round(-n * 100, -d))
            ELSE (IF n <= 0 THEN 0 ELSE IF n >= d THEN 100 ELSE round(n * 100, d))
    IN  IF v > mid2
        THEN IF maxval - mid2 = 0 THEN Raise("ZeroDivisionError")
             ELSE IntV(clamp(v - mid2, maxval - mid2))
        ELSE IF v < mid1
        THEN IF mid1 - maxval = 0 THEN Raise("ZeroDivisionError")
             ELSE IntV(clamp(mid1 - v, mid1 - maxval))
        ELSE IntV(0)

\* converter() from the averaged sample on: lines 177-187.
percent_of(v, axis, maxval) ==
    LET mid1 == middle[axis][1]
        mid2 == middle[axis][3]
        clamp(n, d) ==
            IF d < 0 THEN (IF n >= 0 THEN 0 ELSE IF -n >= -d THEN 100 ELSE round(-n * 100, -d))
            ELSE (IF n <= 0 THEN 0 ELSE IF n >= d THEN 100 ELSE round(n * 100, d))
    IN  IF v > mid2
        THEN IF maxval - mid2 = 0 THEN Raise("ZeroDivisionError")
             ELSE IntV(clamp(v - mid2, maxval - mid2))
        ELSE IF v < mid1
        THEN IF mid1 - maxval = 0 THEN Raise("ZeroDivisionError")
             ELSE IntV(clamp(mid1 - v, mid1 - maxval))
        ELSE IntV(0)

\* converter(axis, maxval)
converter(axis, maxval) == percent_of(axis_reader(axis), axis, maxval)

\* up(True), down(True), right(True), left(True)
percent(direction) ==
    CASE direction = "up" -> converter(upaxis, upval)
      [] direction = "down" -> converter(downaxis, downval)
      [] direction = "right" -> converter(rightaxis, rightval)
      [] direction = "left" -> converter(leftaxis, leftval)

\* up(percent), ...: p if percent else p > 50
direction_method(direction, as_percent) ==
    LET p == percent(direction)
    IN  IF p.k = "raise" THEN p
        ELSE IF as_percent THEN p ELSE BoolV(p.v > 50)

\* The order max_direction and get_all_states call the four methods in.
query_directions == <<"up", "down", "right", "left">>

\* Faulty variant of sort_desc: descending, but equal keys end up in reverse order.
RECURSIVE sort_desc_reversing(_)
sort_desc_reversing(l) ==
    IF l = <<>> THEN <<>>
    ELSE LET rest == sort_desc_reversing(Tail(l))
             x == Head(l)
             n == Cardinality({i \in 1..Len(rest) : rest[i][2] >= x[2]})
         IN  SubSeq(rest, 1, n) \o <<x>> \o SubSeq(rest, n + 1, Len(rest))

\* list.sort(key=lambda x: x[1], reverse=True): descending and stable.
RECURSIVE sort_desc(_)
sort_desc(l) ==
    IF l = <<>> THEN <<>>
    ELSE LET rest == sort_desc(Tail(l))
             x == Head(l)
             \* x goes before the first element that is not larger than it
             n == Cardinality({i \in 1..Len(rest) : rest[i][2] > x[2]})
         IN  SubSeq(rest, 1, n) \o <<x>> \o SubSeq(rest, n + 1, Len(rest))

\* The first exception the four calls raise, if any.
first_raise ==
    LET bad == {i \in 1..4 : percent(query_directions[i]).k = "raise"}
    IN  IF bad = {} THEN None
        ELSE percent(query_directions[CHOOSE i \in bad : \A j \in bad : i <= j])

\* max_direction(as_bool)
max_direction(b) ==
    IF first_raise.k = "raise" THEN first_raise
    ELSE LET directions ==
                 sort_desc([i \in 1..4 |->
                     <<query_directions[i], percent(query_directions[i]).v>>])
         IN  IF directions[1][2] = 0 THEN None
             ELSE IF b
             THEN (IF directions[1][2] > 50 THEN StrV(directions[1][1]) ELSE None)
             ELSE ListV(directions[1])

\* get_all_states()
get_all_states ==
    IF first_raise.k = "raise" THEN first_raise
    ELSE ListV(<<<<"button", button>>>> \o
               [i \in 1..4 |-> <<query_directions[i], percent(query_directions[i]).v>>])

\* Faulty variant of get: the stick asked first, the button only when it is at rest.
get_stick_first(b) ==
    IF max_direction(b).k \in {"str", "list", "raise"} THEN max_direction(b)
    ELSE IF button THEN StrV("button") ELSE None

\* get(as_bool)
get(b) == IF button THEN StrV("button") ELSE max_direction(b)

\* ---------------------------------------------------------------- actions
\* Joystick(a1, a2, button_pin, samples, deadzone): __init__ up to its return,
\* its exception, or the first input() prompt of calibrate().
Construct(s, dz) ==
    /\ pc = "new"
    /\ samples' = s
    /\ deadzone' = dz
    /\ op' = Call("__init__", <<s, dz>>)
    /\ LET found == find_file(fs, <<>>, SentinelText, DefaultFileType)
           text == strip(readline(fs, found.v, 2))
           e == eval(text)
       IN  /\ file' = found
           /\ IF found.k = "raise" \/ ~truthy(found)
              THEN /\ pc' = "failed"
                   /\ ret' = IF found.k = "raise" THEN found
                             ELSE Raise("OSError: This file couldn't be found")
                   /\ UNCHANGED <<raw_data, cal_data, derived, caller, calibrations>>
              ELSE /\ raw_data' = text
                   /\ IF ~e.ok
                      THEN /\ pc' = "failed"
                           /\ ret' = Raise("OSError: Calibration data is corrupted")
                           /\ UNCHANGED <<cal_data, derived, caller, calibrations>>
                      ELSE IF e.val = <<>>
                      THEN /\ pc' = "calibrate"
                           /\ caller' = "__init__"
                           /\ calibrations' = calibrations + 1
                           /\ cal_data' = <<>>
                           /\ ret' = None
                           /\ UNCHANGED derived
                      ELSE IF ~indexable(e.val)
                      THEN /\ pc' = "failed"
                           /\ ret' = Raise("IndexError")
                           /\ cal_data' = e.val
                           /\ UNCHANGED <<derived, caller, calibrations>>
                      ELSE /\ pc' = "ready"
                           /\ ret' = None
                           /\ cal_data' = e.val
                           /\ Loaded(load_calib(e.val, dz))
                           /\ UNCHANGED <<caller, calibrations>>
    /\ UNCHANGED <<fs, hw, printed, waiter>>

\* joystick.calibrate() called on a constructed object, up to its first prompt.
Calibrate ==
    /\ pc = "ready"
    /\ wpc = "idle"
    /\ calibrations <= MaxCalibrate
    /\ pc' = "calibrate"
    /\ caller' = "user"
    /\ calibrations' = calibrations + 1
    /\ cal_data' = <<>>
    /\ op' = Call("calibrate", <<>>)
    /\ ret' = None
    /\ polls' = <<>>
    /\ UNCHANGED <<fs, hw, samples, deadzone, file, raw_data, derived, printed, wpc, val,
                   as_bool>>

\* One of the first four poses: ENTER is pressed, both axes are read once, the
\* entry is appended, and the next prompt is shown.
CalibratePose ==
    /\ pc = "calibrate"
    /\ Len(cal_data) < 4
    /\ cal_data' = Append(cal_data,
                     calibrate_entry(calibrate_directions[Len(cal_data) + 1], a1, a2))
    /\ UNCHANGED <<fs, hw, pc, caller, samples, deadzone, file, raw_data, derived,
                   op, ret, printed, waiter, calibrations>>

\* The fifth pose, the rewrite of the file, and the return; back in __init__,
\* load_calib(self.cal_data) follows.
CalibrateLast ==
    /\ pc = "calibrate"
    /\ Len(cal_data) = 4
    /\ \E fault \in Faults(readlines(fs, file.v)) :
        LET data == Append(cal_data, calibrate_entry(calibrate_directions[5], a1, a2))
            lines == readlines(fs, file.v)
        IN  /\ cal_data' = data
            /\ fs' = write_lines(fs, file.v, save_lines(lines, data, fault))
            /\ printed' = save_failed(lines, fault)
            /\ IF caller = "__init__"
               THEN Loaded(load_calib(data, deadzone))
               ELSE UNCHANGED derived
    /\ pc' = "ready"
    /\ caller' = ""
    /\ ret' = None
    /\ UNCHANGED <<hw, samples, deadzone, file, raw_data, op, waiter, calibrations>>

\* The stick or the button moves: one pin takes a new level.  The result of
\* the previous call has been consumed by then.
Hardware(levels1, levels2, btns) ==
    /\ pc \in {"calibrate", "ready"}
    /\ \/ a1' \in levels1 \ {a1} /\ UNCHANGED <<a2, btn>>
       \/ a2' \in levels2 \ {a2} /\ UNCHANGED <<a1, btn>>
       \/ btn' \in btns \ {btn} /\ UNCHANGED <<a1, a2>>
    /\ op' = NoOp
    /\ ret' = None
    /\ polls' = IF wpc = "idle" THEN <<>> ELSE polls
    /\ UNCHANGED <<fs, pc, caller, object, derived, printed, wpc, val, as_bool,
                   calibrations>>

\* A synchronous query on a constructed object.
Query(name, args, result) ==
    /\ pc = "ready"
    /\ wpc = "idle"
    /\ op' = Call(name, args)
    /\ ret' = result
    /\ polls' = <<>>
    /\ UNCHANGED <<fs, hw, pc, caller, object, derived, printed, wpc, val, as_bool,
                   calibrations>>

Get(b) == Query("get", <<b>>, get(b))

MaxDirection(b) == Query("max_direction", <<b>>, max_direction(b))

GetAllStates == Query("get_all_states", <<>>, get_all_states)

Button == Query("button", <<>>, BoolV(button))

Direction(d, p) == Query(d, <<p>>, direction_method(d, p))

Converter(axis, maxval) == Query("converter", <<axis, maxval>>, converter(axis, maxval))

\* One pass of get_waiter's loop body up to the await: button first, then
\* max_direction(as_bool).
poll(b) == IF button THEN StrV("button") ELSE max_direction(b)

\* Faulty variant of keep_polling: the loop left after its first pass.
keep_polling_once(v) == FALSE

\* `while not val`
keep_polling(v) == ~truthy(v)

\* get_waiter(as_bool) from the call to the first await.
GetWaiterStart(b) ==
    /\ pc = "ready"
    /\ wpc = "idle"
    /\ op' = Call("get_waiter", <<b>>)
    /\ IF poll(b).k = "raise"
       THEN /\ ret' = poll(b)
            /\ polls' = <<>>
            /\ UNCHANGED <<wpc, val, as_bool>>
       ELSE /\ val' = poll(b)
            /\ as_bool' = b
            /\ polls' = <<poll(b)>>
            /\ wpc' = "sleep"
            /\ ret' = None
    /\ UNCHANGED <<fs, hw, pc, caller, object, derived, printed, calibrations>>

\* The sleep is over and val is still falsy: the next poll.
GetWaiterPoll ==
    /\ wpc = "sleep"
    /\ keep_polling(val)
    /\ Len(polls) < MaxPolls
    /\ IF poll(as_bool).k = "raise"
       THEN /\ ret' = poll(as_bool)
            /\ wpc' = "idle"
            /\ val' = None
            /\ as_bool' = FALSE
            /\ polls' = <<>>
       ELSE /\ val' = poll(as_bool)
            /\ polls' = Append(polls, poll(as_bool))
            /\ UNCHANGED <<wpc, ret, as_bool>>
    /\ UNCHANGED <<fs, hw, pc, caller, object, derived, op, printed, calibrations>>

\* The sleep is over and val is truthy: return val.
GetWaiterReturn ==
    /\ wpc = "sleep"
    /\ ~keep_polling(val)
    /\ wpc' = "idle"
    /\ ret' = val
    /\ op' = Call("get_waiter", <<as_bool>>)
    /\ val' = None
    /\ as_bool' = FALSE
    /\ UNCHANGED <<fs, hw, pc, caller, object, derived, printed, polls, calibrations>>

\* find_file(path, first_line, file_type) called on its own.
FindFile(path, first_line, file_type) ==
    /\ pc = "new"
    /\ path = <<>> \/ (path \in {<<fs[i].name>> : i \in 1..Len(fs)} /\ isdir(fs, path))
    /\ op' = Call("find_file", <<path, first_line, file_type>>)
    /\ ret' = find_file(fs, path, first_line, file_type)
    /\ UNCHANGED <<fs, hw, pc, caller, object, derived, printed, waiter, calibrations>>

\* ----------------------------------------------------- initial file systems
Mid == AdcMax \div 2

JoystickPy == <<"j", ".", "p", "y">>

SentinelLine == SentinelText \o <<"\n">>

\* What follows line 2 in the file.
RestLines == << <<"# Created by Tueftler.py", "\n">>, <<"import machine, os, asyncio", "\n">> >>

\* The calibration file with `text` on line 2.
CalFile(text) == File(JoystickPy, <<SentinelLine, text \o <<"\n">>>> \o RestLines)

\* The record calibrate() builds when the pins read positions[i] at pose i.
RecordOf(positions) ==
    [i \in 1..5 |-> calibrate_entry(calibrate_directions[i], positions[i][1], positions[i][2])]

\* The stick held as asked: centre, left, right, up, down.
RecNormal ==
    RecordOf(<< <<Mid, Mid>>, <<0, Mid>>, <<AdcMax, Mid>>, <<Mid, 0>>, <<Mid, AdcMax>> >>)

\* The stick held down at every directional pose.
RecSame == RecordOf(<< <<Mid, Mid>>, <<Mid, AdcMax>>, <<Mid, AdcMax>>, <<Mid, AdcMax>>,
                       <<Mid, AdcMax>> >>)

\* The stick left at rest at every pose.
RecRest == RecordOf([i \in 1..5 |-> <<Mid, Mid>>])

\* Sequences over `nodes` of at most MaxEntries entries with distinct names.
Listings(nodes) ==
    {l \in UNION {[1..n -> nodes] : n \in 0..MaxEntries} :
        \A i, j \in 1..Len(l) : i # j => l[i].name # l[j].name}

OtherText == <<"# other">>

TxtType == <<".", "t", "x", "t">>

FindFiles ==
    {File(n, <<t \o <<"\n">>>>) :
        n \in {<<"a", ".", "p", "y">>, <<"b", ".", "t", "x", "t">>},
        t \in {SentinelText, OtherText}}

FindDirs == {Dir(n, k) : n \in {<<"d">>, <<"e", ".", "p", "y">>}, k \in Listings(FindFiles)}

FindTrees == Listings(FindFiles \cup FindDirs)

LifeTrees ==
    { <<CalFile(<<"[", "]">>)>>,
      <<File(<<"m", ".", "p", "y">>, <<<<"# other", "\n">>>>), Dir(<<"lib">>, <<CalFile(<<"[", "]">>)>>)>>,
      <<CalFile(repr(RecNormal))>>,
      <<CalFile(<<"[", "[">>)>>,
      <<CalFile(repr(SubSeq(RecNormal, 1, 2)))>>,
      <<File(<<"m", ".", "p", "y">>, <<<<"# other", "\n">>>>)>> }

QueryTrees == {<<CalFile(repr(r))>> : r \in {RecNormal, RecSame, RecRest}}

ConvTrees ==
    {<<CalFile(repr([RecNormal EXCEPT ![1] = <<"MIDDLE", 1, m, 2, AdcMax - m>>]))>> :
        m \in 0..AdcMax}

\* ----------------------------------------------------------- specifications
InitWith(trees) ==
    /\ fs \in trees
    /\ a1 = Mid /\ a2 = Mid /\ btn = 1
    /\ pc = "new" /\ caller = ""
    /\ samples = 0 /\ deadzone = 0 /\ file = None /\ raw_data = <<>> /\ cal_data = <<>>
    /\ middle = <<>>
    /\ leftval = 0 /\ leftaxis = 0 /\ rightval = 0 /\ rightaxis = 0
    /\ upval = 0 /\ upaxis = 0 /\ downval = 0 /\ downaxis = 0
    /\ op = NoOp /\ ret = None /\ printed = FALSE
    /\ wpc = "idle" /\ val = None /\ as_bool = FALSE /\ polls = <<>>
    /\ calibrations = 0

Levels == 0..AdcMax

\* Stick positions for the queries: both ends, the centre and its neighbours.
QueryLevels == {0, Mid - 1, Mid, Mid + 1, AdcMax}

\* Construction, calibration, persistence and recalibration.
Init == InitWith(LifeTrees)

Next ==
    \/ Construct(3, 25)
    \/ Calibrate
    \/ CalibratePose
    \/ CalibrateLast
    \/ pc = "ready" /\ Hardware({0, Mid, AdcMax}, {Mid}, {0, 1})
    \/ \E b \in BOOLEAN : Get(b)

Spec == Init /\ [][Next]_vars

\* The query surface on constructed objects.
InitQuery == InitWith(QueryTrees)

NextQuery ==
    \/ \E dz \in {3, 25} : Construct(3, dz)
    \/ Hardware(QueryLevels, QueryLevels, {0, 1})
    \/ \E b \in BOOLEAN : Get(b)
    \/ \E b \in BOOLEAN : MaxDirection(b)
    \/ GetAllStates
    \/ Button
    \/ \E d \in {"up", "down", "right", "left"}, p \in BOOLEAN : Direction(d, p)
    \/ \E b \in BOOLEAN : GetWaiterStart(b)
    \/ GetWaiterPoll
    \/ GetWaiterReturn

SpecQuery == InitQuery /\ [][NextQuery]_vars

\* converter over every band and every extreme.
InitConv == InitWith(ConvTrees)

NextConv ==
    \/ \E s \in {1, 3}, dz \in {3, 25, 50} : Construct(s, dz)
    \/ Hardware(Levels, Levels, {1})
    \/ \E axis \in {1, 2}, maxval \in Levels : Converter(axis, maxval)

SpecConv == InitConv /\ [][NextConv]_vars

\* find_file over directory trees.
InitFind == InitWith(FindTrees)

NextFind ==
    \E path \in {<<>>} \cup {<<<<"d">>>>}, first_line \in {SentinelText, OtherText},
       file_type \in {DefaultFileType, TxtType} :
        FindFile(path, first_line, file_type)

SpecFind == InitFind /\ [][NextFind]_vars

\* ------------------------------------------------------------------ claims
SameValue(x, y) == x.k = y.k /\ x.v = y.v

IsDirectionResult(x) == (x.k = "str" /\ x.v # "button") \/ x.k = "list"

\* The four percentages of the current sample, when none of them raises.
percents == [i \in 1..4 |-> percent(query_directions[i]).v]

max_percent == CHOOSE m \in {percents[i] : i \in 1..4} : \A i \in 1..4 : percents[i] <= m

first_max == CHOOSE i \in 1..4 : percents[i] = max_percent /\ \A j \in 1..(i - 1) : percents[j] < max_percent

\* C1 (get): with the button pressed get returns "button", whatever the axes
\* read and whatever as_bool is; a direction comes back only with the button
\* released.
C1_Get ==
    op.name = "get" =>
        /\ button => SameValue(ret, StrV("button"))
        /\ IsDirectionResult(ret) => ~button

\* C1 (get_waiter): each poll of get_waiter gives the button the same priority.
C1_Poll ==
    (polls' # polls /\ polls' # <<>>) =>
        /\ button => SameValue(polls'[Len(polls')], StrV("button"))
        /\ IsDirectionResult(polls'[Len(polls')]) => ~button

\* C1: the button has priority over the stick in get(as_bool) and in every
\* poll of get_waiter(as_bool), for both values of as_bool, every pair of axis
\* samples and every loaded calibration.
C1_ButtonPriority == []C1_Get /\ [][C1_Poll]_vars

\* C1 witness: get returned "button" while the stick was deflected.
C1_Witness ==
    /\ op.name = "get"
    /\ button
    /\ first_raise.k # "raise"
    /\ max_percent = 100
    /\ SameValue(ret, StrV("button"))

conv_axis == op.args[1]

conv_maxval == op.args[2]

conv_val == axis_reader(conv_axis)

conv_low == middle[conv_axis][1]

conv_centre == middle[conv_axis][2]

conv_high == middle[conv_axis][3]

\* C3: outside the deadzone band the percentage never decreases as the sample
\* moves further from the centre, and it is 100 once the sample has reached or
\* passed the extreme.
C3_MonotoneSaturating ==
    op.name = "converter" =>
        /\ conv_val > conv_high =>
              \A w \in Levels : w >= conv_val =>
                  /\ ret.k = "int"
                  /\ percent_of(w, conv_axis, conv_maxval).k = "int"
                  /\ percent_of(w, conv_axis, conv_maxval).v >= ret.v
        /\ conv_val < conv_low =>
              \A w \in Levels : w <= conv_val =>
                  /\ ret.k = "int"
                  /\ percent_of(w, conv_axis, conv_maxval).k = "int"
                  /\ percent_of(w, conv_axis, conv_maxval).v >= ret.v
        /\ (conv_val > conv_high /\ conv_maxval >= conv_centre /\ conv_val >= conv_maxval)
              => SameValue(ret, IntV(100))
        /\ (conv_val < conv_low /\ conv_maxval <= conv_centre /\ conv_val <= conv_maxval)
              => SameValue(ret, IntV(100))

\* C4: converter returns 0 for a sample strictly between the low and the high
\* bound of its axis's deadzone band.
C4_DeadzoneZero ==
    (op.name = "converter" /\ conv_low < conv_val /\ conv_val < conv_high) =>
        SameValue(ret, IntV(0))

\* C4 witness: a sample strictly inside a band, off its centre, converted to 0.
C4_Witness ==
    /\ op.name = "converter"
    /\ conv_low < conv_val /\ conv_val < conv_high
    /\ conv_val # conv_centre
    /\ SameValue(ret, IntV(0))

\* C5: with the extreme on a bound of the deadzone band, converter still gives
\* a percentage for every sample outside the band.
C5_DefinedOnBandEdge ==
    (/\ op.name = "converter"
     /\ conv_maxval \in {conv_low, conv_high}
     /\ (conv_val < conv_low \/ conv_val > conv_high)) => ret.k = "int"

\* Whether line 2 of the file, as __init__ read it, is the empty list.
read_empty == eval(raw_data).ok /\ eval(raw_data).val = <<>>

in_order(data) ==
    /\ Len(data) = 5
    /\ <<data[1][1], data[2][1], data[3][1], data[4][1], data[5][1]>>
           = <<"MIDDLE", "LEFT", "RIGHT", "UP", "DOWN">>

C6_State ==
    /\ op.name = "get" => pc = "ready"
    /\ (pc = "calibrate" /\ caller = "__init__") => (calibrations = 1 /\ read_empty)
    /\ pc = "failed" => calibrations = 0
    /\ (pc = "ready" /\ read_empty) => in_order(cal_data)

C6_Step ==
    (pc' = "ready" /\ (pc = "new" \/ (pc = "calibrate" /\ caller = "__init__"))) =>
        IF eval(raw_data').val = <<>>
        THEN calibrations' = 1 /\ in_order(cal_data')
        ELSE calibrations' = 0

\* C6: construction from an empty line 2 runs calibrate() exactly once, over
\* MIDDLE, LEFT, RIGHT, UP, DOWN in that order, and the object holds the five
\* entries in that order before a query returns; construction from a non-empty
\* record never runs it.
C6_CalibratesOnce == []C6_State /\ [][C6_Step]_vars

\* C6 witness: a query returned on an object whose construction calibrated.
C6_Witness ==
    /\ pc = "ready"
    /\ read_empty
    /\ calibrations = 1
    /\ op.name = "get"

\* get_waiter has returned val.
waiter_returned == op.name = "get_waiter" /\ wpc = "idle" /\ polls # <<>>

C7_State ==
    /\ \A i \in 1..(Len(polls) - 1) : polls[i].k = "None"
    /\ wpc = "sleep" => (polls # <<>> /\ SameValue(val, polls[Len(polls)]))
    /\ waiter_returned => (ret.k # "None" /\ SameValue(ret, polls[Len(polls)]))

C7_Step == (polls' # polls /\ polls' # <<>>) => wpc' = "sleep"

\* C7: get_waiter sleeps after every poll, polls again only while every poll
\* so far gave nothing, and returns the first result that is not None; it
\* never returns None.
C7_WaiterReturnsFirstResult == []C7_State /\ [][C7_Step]_vars

\* C7 witness: get_waiter returned the result of its second poll.
C7_Witness == waiter_returned /\ Len(polls) = 2 /\ IsDirectionResult(ret)

\* C8: the save at the end of calibrate() changes line 2 only, in every
\* outcome; when it reports no failure line 2 is the new record's text.
C8_Step ==
    (pc = "calibrate" /\ pc' = "ready") =>
        LET old == readlines(fs, file.v)
            new == readlines(fs', file.v)
        IN  /\ Len(new) = Len(old)
            /\ \A i \in 1..Len(old) : i # 2 => new[i] = old[i]
            /\ ~printed' => new[2] = repr(cal_data') \o <<"\n">>

C8_OnlyLine2Changes == [][C8_Step]_vars

\* The first file of the subtree, entries in listing order and a file checked
\* before the directories are entered, that ends in file_type and starts with
\* first_line: the same two at every depth.
RECURSIVE first_match_from(_, _, _, _, _)
first_match_from(tree, path, first_line, file_type, i) ==
    LET entries == listdir(tree, path)
    IN  IF i > Len(entries) THEN None
        ELSE
          LET newpath == Append(path, entries[i])
              rest == first_match_from(tree, path, first_line, file_type, i + 1)
              below == first_match_from(tree, newpath, first_line, file_type, 1)
          IN  IF isdir(tree, newpath)
              THEN (IF below.k = "path" THEN below ELSE rest)
              ELSE IF /\ endswith(entries[i], file_type)
                      /\ strip(readline(tree, newpath, 1)) = first_line
              THEN PathV(newpath)
              ELSE rest

\* C9: find_file returns the first matching file of the traversal, with the
\* configured file_type and first_line at every depth, and None exactly when
\* the subtree holds none.
C9_FirstMatch ==
    (op.name = "find_file" /\ ret.k # "raise") =>
        SameValue(ret, first_match_from(fs, op.args[1], op.args[2], op.args[3], 1))

DerivedOf(c) ==
    <<c.middle, c.leftval, c.leftaxis, c.rightval, c.rightaxis,
      c.upval, c.upaxis, c.downval, c.downaxis>>

\* C10 as claimed: whenever a query has run, the bands and the per-direction
\* values are the ones derived from the record in cal_data.
C10_DerivedFollowCalData ==
    op.name = "get" => derived = DerivedOf(load_calib(cal_data, deadzone))

C10_Step ==
    /\ (pc' = "ready" /\ (pc = "new" \/ (pc = "calibrate" /\ caller = "__init__")))
          => derived' = DerivedOf(load_calib(cal_data', deadzone'))
    /\ (pc = "ready" \/ (pc = "calibrate" /\ caller = "user")) => derived' = derived

\* C10 amended: when construction ends the bands and the per-direction values
\* are derived from cal_data; nothing after construction changes them, so a
\* calibrate() call replaces cal_data without changing what queries use.
C10_DerivedFromConstruction == [][C10_Step]_vars

\* C10 witness: a query ran after a recalibration, on values that are not the
\* ones derived from cal_data.
C10_Witness ==
    /\ op.name = "get"
    /\ derived # DerivedOf(load_calib(cal_data, deadzone))

====
